---- MODULE Spec2Model ----
(***************************************************************************)
(* News aggregation (getNews, lib/actions/finnhub.actions.ts), the daily   *)
(* digest job (sendDailyNewsSummary, lib/inngest/functions.ts), article    *)
(* formatting (formatArticle, lib/utils.ts) and concurrent watchlist       *)
(* additions (addToWatchlist, lib/actions/watchlist.actions.ts).           *)
(*                                                                         *)
(* Strings the code inspects (symbols, headlines, summaries, urls) are     *)
(* sequences of one-character strings, so that trim, toUpperCase,          *)
(* substring and string concatenation are computed, not assumed.           *)
(***************************************************************************)
EXTENDS Integers, Sequences, FiniteSets, TLC

VARIABLES
    \* ---- one getNews call and the upstream feed it talks to ----
    pc,                 \* position of the call: start, fetching, merge, general, done, raised
    tokenConfigured,    \* FINNHUB_API_KEY ?? NEXT_PUBLIC_FINNHUB_API_KEY is non-empty
    cleanSymbols,       \* const cleanSymbols
    pending,            \* indices of cleanSymbols whose company-news request is in flight
    company,            \* upstream: the company-news response of each symbol requested so far
    general,            \* upstream: the general-news response, once requested
    perSymbolArticles,  \* const perSymbolArticles: Record<string, RawNewsArticle[]>
    keyOrder,           \* the keys of perSymbolArticles, in the order the callbacks created them
    requests,           \* upstream requests issued by the call, in order
    result,             \* the value the call returned
    \* ---- one run of sendDailyNewsSummary ----
    dpc,                \* position of the run: resolve, fetch, summarize, deliver, delivering, finished
    users,              \* const users (step get-all-users)
    results,            \* const results (step fetch-user-news): {user, articles} per user
    newsLog,            \* per user, what the watchlist lookup and the getNews calls answered
    userNewsSummaries,  \* const userNewsSummaries: {user, newsContent} per user
    inferLog,           \* per user, what step.ai.infer answered
    delivery,           \* per user, the state of the sendNewsSummaryEmail call
    directory,          \* what the user store answered to get-all-users
    outbox,             \* emails handed to sendNewsSummaryEmail, in order
    outcome,            \* what the run returned, or that it raised
    \* ---- one formatArticle call ----
    fpc,                \* position of the call: idle, input, formatted
    fmtArticle,         \* its argument article
    fmtCompany,         \* its argument isCompanyNews
    fmtResult,          \* the object it returned
    \* ---- concurrent addToWatchlist calls of one user ----
    watchlist,          \* the documents of the Watchlist collection, in insertion order
    calls,              \* per call: its position, its argument, what it returned or raised
    \* ---- lib/better-auth/auth.ts: the module and the callers of getAuth ----
    authInstance,       \* let authInstance: 0 for null, else the number of the instance
    built,              \* how many times betterAuth(...) has been called
    loaded,             \* evaluation of the module: loading, loaded, failed
    authCalls,          \* per getAuth call: its position and the instance it resolved with
    \* ---- one mounted WatchlistButton and the server behind it ----
    btnAdded,           \* const [added, setAdded] of the button
    timers,             \* pending timeouts of useDebounce: the `added` each callback closed over
    timeoutRef,         \* timeoutRef.current: does it name a pending timeout
    mutations,          \* server actions issued and not yet answered, in order
    server,             \* is the symbol in the user's watchlist on the server
    clicks,             \* clicks so far
    bursts,             \* bursts of clicks so far: clicks made while no timeout was pending
    issued,             \* server actions issued so far
    failed              \* has a server action raised

newsVars == <<pc, tokenConfigured, cleanSymbols, pending, company,
              general, perSymbolArticles, keyOrder, requests, result>>

digestVars == <<dpc, users, results, newsLog, userNewsSummaries, inferLog,
                delivery, directory, outbox, outcome>>

formatVars == <<fpc, fmtArticle, fmtCompany, fmtResult>>

watchVars == <<watchlist, calls>>

authVars == <<authInstance, built, loaded, authCalls>>

buttonVars == <<btnAdded, timers, timeoutRef, mutations, server, clicks, bursts, issued, failed>>

vars == <<newsVars, digestVars, formatVars, watchVars, authVars, buttonVars, authVars, buttonVars>>

----------------------------------------------------------------------------
(* Bounds of the model *)

MaxSyms == 3        \* longest symbol list passed to getNews
MaxFeed == 4        \* longest company-news response
MaxGeneral == 2     \* longest general-news response
MaxUsers == 2       \* most documents the user store returns
MaxNews == 1        \* most articles a getNews call of the digest run returns
MaxSummary == 300   \* most non-blank characters of a summary given to formatArticle
MaxCalls == 2       \* most addToWatchlist calls in flight at once
MaxAuthCalls == 5   \* most getAuth calls made by importers of the auth module
MaxClicks == 4      \* most clicks on one WatchlistButton

(* Constants of the program *)

\* a cap that is one too large
maxArticlesOffByOne == 6 + 1

maxArticles == 6
UniqueCap == 20
CompanySummaryCap == 200
GeneralSummaryCap == 150

----------------------------------------------------------------------------
(* Strings *)

Min(a, b) == IF a < b THEN a ELSE b

Take(s, n) == SubSeq(s, 1, Min(n, Len(s)))

IsSpace(c) == c = " "

RECURSIVE TrimStart(_)
TrimStart(s) ==
    IF s # <<>> /\ IsSpace(Head(s)) THEN TrimStart(Tail(s)) ELSE s

RECURSIVE TrimEnd(_)
TrimEnd(s) ==
    IF s # <<>> /\ IsSpace(s[Len(s)]) THEN TrimEnd(SubSeq(s, 1, Len(s) - 1)) ELSE s

Trim(s) == TrimEnd(TrimStart(s))

UpperChar(c) ==
    CASE c = "a" -> "A"
      [] c = "b" -> "B"
      [] OTHER -> c

ToUpperCase(s) == [k \in 1..Len(s) |-> UpperChar(s[k])]

Digits == <<"0", "1", "2", "3", "4", "5", "6", "7", "8", "9">>

RECURSIVE NumStr(_)
NumStr(n) == IF n < 10 THEN <<Digits[n + 1]>> ELSE NumStr(n \div 10) \o <<Digits[(n % 10) + 1]>>

Ellipsis == <<".", ".", ".">>

----------------------------------------------------------------------------
(* lib/utils.ts *)

\* validateArticle that does not look at the url
validateArticleNoUrl(article) ==
    /\ article.headline # <<>>
    /\ article.summary # <<>>
    /\ article.datetime # 0

\* article.headline && article.summary && article.url && article.datetime
validateArticle(article) ==
    /\ article.headline # <<>>
    /\ article.summary # <<>>
    /\ article.url # <<>>
    /\ article.datetime # 0

\* Date.now() + Math.random(): a fresh value no caller reads; gen marks it
GeneratedId == [gen |-> TRUE, n |-> 0]

\* formatArticle that appends the ellipsis only when the summary was cut
formatArticleEllipsisWhenCut(article, isCompanyNews, symbol, index) ==
    LET cap == IF isCompanyNews THEN CompanySummaryCap ELSE GeneralSummaryCap
        trimmed == Trim(article.summary)
    IN
    [id       |-> IF isCompanyNews THEN GeneratedId
                  ELSE [gen |-> FALSE, n |-> article.id + index],
     headline |-> Trim(article.headline),
     summary  |-> IF Len(trimmed) > cap THEN Take(trimmed, cap) \o Ellipsis ELSE trimmed,
     source   |-> IF article.source # "" THEN article.source
                  ELSE IF isCompanyNews THEN "Company News" ELSE "Market News",
     url      |-> article.url,
     datetime |-> article.datetime,
     image    |-> article.image,
     category |-> IF isCompanyNews THEN "company"
                  ELSE IF article.category # "" THEN article.category ELSE "general",
     related  |-> IF isCompanyNews THEN symbol ELSE article.related]

\* lines 179-195
formatArticle(article, isCompanyNews, symbol, index) ==
    [id       |-> IF isCompanyNews THEN GeneratedId
                  ELSE [gen |-> FALSE, n |-> article.id + index],
     headline |-> Trim(article.headline),
     summary  |-> Take(Trim(article.summary),
                       IF isCompanyNews THEN CompanySummaryCap ELSE GeneralSummaryCap)
                  \o Ellipsis,
     source   |-> IF article.source # "" THEN article.source
                  ELSE IF isCompanyNews THEN "Company News" ELSE "Market News",
     url      |-> article.url,
     datetime |-> article.datetime,
     image    |-> article.image,
     category |-> IF isCompanyNews THEN "company"
                  ELSE IF article.category # "" THEN article.category ELSE "general",
     related  |-> IF isCompanyNews THEN symbol ELSE article.related]

----------------------------------------------------------------------------
(* The upstream feed: what a request can be answered with *)

Syms == {<<"A">>, <<"B">>}

\* raw strings a caller may pass as a symbol
RawSymbols == {<<"a">>, <<" ", "A">>, <<"B">>, <<" ">>}

SeqsUpTo(S, n) == UNION {[1..k -> S] : k \in 0..n}

SymbolInputs ==
    {[given |-> FALSE, list |-> <<>>]}
        \cup {[given |-> TRUE, list |-> l] : l \in SeqsUpTo(RawSymbols, MaxSyms)}

SymBase(sym) == IF sym = <<"A">> THEN 100 ELSE 200

\* A's articles are dated 18, 16, 14, ...; B's 27, 24, 21, ...: each feed is
\* newest first, and neither feed is uniformly newer than the other
DateOf(sym, k) == IF sym = <<"A">> THEN 20 - 2 * k ELSE 30 - 3 * k

\* the k-th article of sym's company news; a "bad" one lacks one required field
CompanyArticle(sym, k, kind) ==
    LET bad == kind = "bad" IN
    [id       |-> SymBase(sym) + k,
     headline |-> IF bad /\ k % 4 = 1 THEN <<>> ELSE <<" ", "h">> \o sym \o NumStr(k),
     summary  |-> IF bad /\ k % 4 = 2 THEN <<>> ELSE <<"s">> \o sym \o NumStr(k) \o <<" ">>,
     url      |-> IF bad /\ k % 4 = 3 THEN <<>> ELSE <<"u">> \o sym \o NumStr(k),
     datetime |-> IF bad /\ k % 4 = 0 THEN 0 ELSE DateOf(sym, k),
     source   |-> IF k % 2 = 0 THEN "Wire" ELSE "",
     image    |-> "",
     category |-> "company news",
     related  |-> <<>>]

Failed == [status |-> "fail", body |-> <<>>]          \* transport error or non-OK status
Malformed == [status |-> "malformed", body |-> <<>>]  \* JSON that is not an array of articles
NullBody == [status |-> "null", body |-> <<>>]        \* JSON null
NotRequested == [status |-> "none", body |-> <<>>]
Ok(body) == [status |-> "ok", body |-> body]

\* the shapes of a company-news response: up to MaxFeed articles, of which at
\* most one is invalid
FeedShapes ==
    {kinds \in SeqsUpTo({"ok", "bad"}, MaxFeed) :
        \A j, k \in DOMAIN kinds : kinds[j] = "bad" /\ kinds[k] = "bad" => j = k}

\* one article about both companies: the company news of either may carry it
SharedArticle ==
    [id |-> 300, headline |-> <<"h", "S">>, summary |-> <<"s", "S">>, url |-> <<"u", "S">>,
     datetime |-> 19, source |-> "Wire", image |-> "", category |-> "company news",
     related |-> <<>>]

CompanyResponses(sym) ==
    {Failed, Malformed, NullBody, Ok(<<SharedArticle, CompanyArticle(sym, 1, "ok")>>)}
        \cup {Ok([k \in DOMAIN kinds |-> CompanyArticle(sym, k, kinds[k])]) :
                kinds \in FeedShapes}

G1 ==
    [id |-> 1, headline |-> <<"g", "1">>, summary |-> <<" ", "t", "1">>, url |-> <<"v", "1">>,
     datetime |-> 1, source |-> "", image |-> "", category |-> "", related |-> <<>>]

G2 ==
    [id |-> 2, headline |-> <<"g", "2">>, summary |-> <<"t", "2">>, url |-> <<"v", "2">>,
     datetime |-> 2, source |-> "Desk", image |-> "i2", category |-> "forex", related |-> <<"X">>]

GBad ==
    [id |-> 3, headline |-> <<"g", "3">>, summary |-> <<"t", "3">>, url |-> <<>>,
     datetime |-> 3, source |-> "", image |-> "", category |-> "", related |-> <<>>]

GeneralArticles == {G1, G2, GBad}

\* the k-th article of a long general feed: all valid, all different, oldest first
GeneralArticle(k) ==
    [id |-> 10 + k, headline |-> <<"g">> \o NumStr(10 + k), summary |-> <<"t">> \o NumStr(k),
     url |-> <<"v">> \o NumStr(10 + k), datetime |-> 10 + k, source |-> "", image |-> "",
     category |-> "", related |-> <<>>]

\* a general feed longer than the cap
LongFeed == [k \in 1..(maxArticles + 2) |-> GeneralArticle(k)]

GeneralResponses ==
    {Failed, Malformed, NullBody, Ok(LongFeed)}
        \cup {Ok(body) : body \in SeqsUpTo(GeneralArticles, MaxGeneral)}

\* G1 with another id, another url, another headline
G1OtherId == [G1 EXCEPT !.id = 4]
G1OtherUrl == [G1 EXCEPT !.url = <<"v", "9">>]
G1OtherHeadline == [G1 EXCEPT !.headline = <<"g", "9">>]

\* two articles of one id whose urls and headlines contain the "-" of slugs and
\* titles: url a-b with headline c, url a with headline b-c
H1 == [G1 EXCEPT !.id = 5, !.url = <<"a", "-", "b">>, !.headline = <<"c">>]
H2 == [G1 EXCEPT !.id = 5, !.url = <<"a">>, !.headline = <<"b", "-", "c">>]

\* near-duplicates, as mixed feeds carry them
NearDuplicates == {G1, G1OtherId, G1OtherUrl, G1OtherHeadline, H1, H2}

\* what the general-news request of a call is answered with: a call made
\* without symbols is answered with the near-duplicate feeds as well
GeneralResponsesFor(cs) ==
    IF cs = <<>>
    THEN GeneralResponses \cup {Ok(body) : body \in SeqsUpTo(NearDuplicates, MaxGeneral)}
    ELSE GeneralResponses

----------------------------------------------------------------------------
(* getNews: lib/actions/finnhub.actions.ts *)

\* (symbols || []).map((s) => s?.trim().toUpperCase()).filter(Boolean)
CleanSymbols(input) ==
    LET list == IF input.given THEN input.list ELSE <<>>
        mapped == [k \in 1..Len(list) |-> ToUpperCase(Trim(list[k]))]
    IN  SelectSeq(mapped, LAMBDA s : s # <<>>)

\* the body of one per-symbol callback: what perSymbolArticles[sym] is set to
SymbolArticles(response) ==
    IF response.status = "ok" THEN SelectSeq(response.body, validateArticle)
    ELSE <<>>   \* null payload: (articles || []); anything else: the catch block

\* the round-robin loops with a break where line 129 has its continue: an
\* empty list ends the round
RECURSIVE RoundRobinBreaksAtEmpty(_, _, _, _, _)
RoundRobinBreaksAtEmpty(cs, lists, collected, round, i) ==
    IF round >= maxArticles THEN [collected |-> collected, lists |-> lists]
    ELSE IF i > Len(cs) THEN
        IF Len(collected) >= maxArticles THEN [collected |-> collected, lists |-> lists]
        ELSE RoundRobinBreaksAtEmpty(cs, lists, collected, round + 1, 1)
    ELSE
        LET sym == cs[i]
            list == lists[sym]
        IN  IF Len(list) = 0 THEN RoundRobinBreaksAtEmpty(cs, lists, collected, round + 1, 1)
            ELSE
                LET article == Head(list)
                    shifted == [lists EXCEPT ![sym] = Tail(list)]
                IN  IF ~validateArticle(article)
                    THEN RoundRobinBreaksAtEmpty(cs, shifted, collected, round, i + 1)
                    ELSE
                        LET pushed == Append(collected, formatArticle(article, TRUE, sym, round))
                        IN  IF Len(pushed) >= maxArticles
                            THEN [collected |-> pushed, lists |-> shifted]
                            ELSE RoundRobinBreaksAtEmpty(cs, shifted, pushed, round, i + 1)

\* the round-robin loops reading list[0] where line 130 has list.shift(): the
\* item taken stays in its list
RECURSIVE RoundRobinNoShift(_, _, _, _, _)
RoundRobinNoShift(cs, lists, collected, round, i) ==
    IF round >= maxArticles THEN [collected |-> collected, lists |-> lists]
    ELSE IF i > Len(cs) THEN
        IF Len(collected) >= maxArticles THEN [collected |-> collected, lists |-> lists]
        ELSE RoundRobinNoShift(cs, lists, collected, round + 1, 1)
    ELSE
        LET sym == cs[i]
            list == lists[sym]
        IN  IF Len(list) = 0 THEN RoundRobinNoShift(cs, lists, collected, round, i + 1)
            ELSE
                LET article == Head(list) IN
                IF ~validateArticle(article)
                THEN RoundRobinNoShift(cs, lists, collected, round, i + 1)
                ELSE
                    LET pushed == Append(collected, formatArticle(article, TRUE, sym, round))
                    IN  IF Len(pushed) >= maxArticles
                        THEN [collected |-> pushed, lists |-> lists]
                        ELSE RoundRobinNoShift(cs, lists, pushed, round, i + 1)

\* the round-robin loops with `round <= maxArticles` as the outer condition
RECURSIVE RoundRobinOneMoreRound(_, _, _, _, _)
RoundRobinOneMoreRound(cs, lists, collected, round, i) ==
    IF round >= maxArticles + 1
    THEN [collected |-> collected, lists |-> lists, rounds |-> round]
    ELSE IF i > Len(cs) THEN
        IF Len(collected) >= maxArticles
        THEN [collected |-> collected, lists |-> lists, rounds |-> round + 1]
        ELSE RoundRobinOneMoreRound(cs, lists, collected, round + 1, 1)
    ELSE
        LET sym == cs[i]
            list == lists[sym]
        IN  IF Len(list) = 0 THEN RoundRobinOneMoreRound(cs, lists, collected, round, i + 1)
            ELSE
                LET article == Head(list)
                    shifted == [lists EXCEPT ![sym] = Tail(list)]
                IN  IF ~validateArticle(article)
                    THEN RoundRobinOneMoreRound(cs, shifted, collected, round, i + 1)
                    ELSE
                        LET pushed == Append(collected, formatArticle(article, TRUE, sym, round))
                        IN  IF Len(pushed) >= maxArticles
                            THEN [collected |-> pushed, lists |-> shifted, rounds |-> round + 1]
                            ELSE RoundRobinOneMoreRound(cs, shifted, pushed, round, i + 1)

\* the round-robin loops, entered at (round, i) with the lists and collected so
\* far; rounds is the number of passes of the outer loop that were begun
RECURSIVE RoundRobin(_, _, _, _, _)
RoundRobin(cs, lists, collected, round, i) ==
    IF round >= maxArticles
    THEN [collected |-> collected, lists |-> lists, rounds |-> round]
    ELSE IF i > Len(cs) THEN
        IF Len(collected) >= maxArticles
        THEN [collected |-> collected, lists |-> lists, rounds |-> round + 1]
        ELSE RoundRobin(cs, lists, collected, round + 1, 1)
    ELSE
        LET sym == cs[i]
            list == lists[sym]
        IN  IF Len(list) = 0 THEN RoundRobin(cs, lists, collected, round, i + 1)
            ELSE
                LET article == Head(list)
                    shifted == [lists EXCEPT ![sym] = Tail(list)]
                IN  IF ~validateArticle(article)
                    THEN RoundRobin(cs, shifted, collected, round, i + 1)
                    ELSE
                        LET pushed == Append(collected, formatArticle(article, TRUE, sym, round))
                        IN  IF Len(pushed) >= maxArticles
                            THEN [collected |-> pushed, lists |-> shifted, rounds |-> round + 1]
                            ELSE RoundRobin(cs, shifted, pushed, round, i + 1)

\* x goes after every element that does not sort after it (Array.prototype.sort is stable)
RECURSIVE InsertByDatetime(_, _)
InsertByDatetime(x, sorted) ==
    IF sorted = <<>> THEN <<x>>
    ELSE IF Head(sorted).datetime - x.datetime >= 0
         THEN <<Head(sorted)>> \o InsertByDatetime(x, Tail(sorted))
         ELSE <<x>> \o sorted

\* collected.sort((a, b) => (b.datetime || 0) - (a.datetime || 0))
RECURSIVE SortByDatetimeDesc(_)
SortByDatetimeDesc(items) ==
    IF items = <<>> THEN <<>>
    ELSE InsertByDatetime(items[Len(items)], SortByDatetimeDesc(SubSeq(items, 1, Len(items) - 1)))

\* `${art.id}-${art.url}-${art.headline}`
DedupKey(art) == NumStr(art.id) \o <<"-">> \o art.url \o <<"-">> \o art.headline

\* the loop over the general feed without the seen test of line 155
RECURSIVE UniqueFromNoSeen(_, _, _, _)
UniqueFromNoSeen(feed, k, seen, unique) ==
    IF k > Len(feed) THEN unique
    ELSE LET art == feed[k] IN
         IF ~validateArticle(art) THEN UniqueFromNoSeen(feed, k + 1, seen, unique)
         ELSE LET added == Append(unique, art) IN
              IF Len(added) >= UniqueCap THEN added
              ELSE UniqueFromNoSeen(feed, k + 1, seen \cup {DedupKey(art)}, added)

\* the dedup loop over the general feed, from position k on
RECURSIVE UniqueFrom(_, _, _, _)
UniqueFrom(feed, k, seen, unique) ==
    IF k > Len(feed) THEN unique
    ELSE LET art == feed[k] IN
         IF ~validateArticle(art) THEN UniqueFrom(feed, k + 1, seen, unique)
         ELSE IF DedupKey(art) \in seen THEN UniqueFrom(feed, k + 1, seen, unique)
         ELSE LET added == Append(unique, art) IN
              IF Len(added) >= UniqueCap THEN added
              ELSE UniqueFrom(feed, k + 1, seen \cup {DedupKey(art)}, added)

\* the general-feed path on a well-formed response body
GeneralNews(body) ==
    LET unique == UniqueFrom(body, 1, {}, <<>>)
        top == Take(unique, maxArticles)
    IN  [idx \in 1..Len(top) |-> formatArticle(top[idx], FALSE, <<>>, idx - 1)]

\* GeneralThrows for a loop that tolerates a payload it cannot iterate
GeneralThrowsOnlyOnFail(response) == response.status = "fail"

\* does the general-feed path throw on this response
GeneralThrows(response) == response.status \in {"fail", "malformed"}

CompanyRequest(sym) == [kind |-> "company", symbol |-> sym]
GeneralRequest == [kind |-> "general", symbol |-> <<>>]

NoLists == [s \in {} |-> <<>>]

----------------------------------------------------------------------------
(* One getNews call, step by step *)

NewsIdle ==
    /\ pc = "start"
    /\ cleanSymbols = <<>>
    /\ pending = {}
    /\ company = NoLists
    /\ general = NotRequested
    /\ perSymbolArticles = NoLists
    /\ keyOrder = <<>>
    /\ requests = <<>>
    /\ result = <<>>

\* Begin without the token check of lines 95-98
BeginNoTokenCheck(symbols) ==
    /\ pc = "start"
    /\ LET cs == CleanSymbols(symbols) IN
       /\ cleanSymbols' = cs
       /\ IF Len(cs) > 0
          THEN /\ pc' = "fetching"
               /\ pending' = 1..Len(cs)
               /\ requests' = [k \in 1..Len(cs) |-> CompanyRequest(cs[k])]
          ELSE /\ pc' = "general"
               /\ pending' = {}
               /\ requests' = <<>>
    /\ UNCHANGED <<digestVars, formatVars, watchVars, authVars, buttonVars, tokenConfigured, company, general, perSymbolArticles,
                 keyOrder, result>>

\* lines 93-110 and 148: the token check, the clean-up of the symbols, and the
\* requests of the first path taken
Begin(symbols) ==
    /\ pc = "start"
    /\ IF ~tokenConfigured
       THEN /\ pc' = "raised"
            /\ UNCHANGED <<cleanSymbols, pending, requests>>
       ELSE LET cs == CleanSymbols(symbols) IN
            /\ cleanSymbols' = cs
            /\ IF Len(cs) > 0
               THEN /\ pc' = "fetching"
                    /\ pending' = 1..Len(cs)
                    /\ requests' = [k \in 1..Len(cs) |-> CompanyRequest(cs[k])]
               ELSE /\ pc' = "general"
                    /\ pending' = {}
                    /\ requests' = <<>>
    /\ UNCHANGED <<digestVars, formatVars, watchVars, authVars, buttonVars, tokenConfigured, company, general, perSymbolArticles,
                 keyOrder, result>>

\* SettleSymbol without the try/catch of lines 111-120: a failed request rejects
\* Promise.all and the call raises
SettleSymbolNoCatch(i) ==
    /\ pc = "fetching"
    /\ i \in pending
    /\ LET sym == cleanSymbols[i] IN
       \E response \in CompanyResponses(sym) :
          /\ sym \in DOMAIN company => response = company[sym]
          /\ company' = [s \in DOMAIN company \cup {sym} |->
                            IF s = sym THEN response ELSE company[s]]
          /\ perSymbolArticles' =
                [s \in DOMAIN perSymbolArticles \cup {sym} |->
                    IF s = sym THEN SymbolArticles(response) ELSE perSymbolArticles[s]]
          /\ keyOrder' = IF \E k \in 1..Len(keyOrder) : keyOrder[k] = sym
                          THEN keyOrder ELSE Append(keyOrder, sym)
          /\ pending' = pending \ {i}
          /\ pc' = IF response.status \in {"fail", "malformed"} THEN "raised"
                   ELSE IF pending' = {} THEN "merge" ELSE "fetching"
    /\ UNCHANGED <<digestVars, formatVars, watchVars, authVars, buttonVars, tokenConfigured, cleanSymbols, general, requests, result>>

\* lines 110-121: the request of cleanSymbols[i] settles and its callback runs
SettleSymbol(i) ==
    /\ pc = "fetching"
    /\ i \in pending
    /\ LET sym == cleanSymbols[i] IN
       \E response \in CompanyResponses(sym) :
          /\ sym \in DOMAIN company => response = company[sym]
          /\ company' = [s \in DOMAIN company \cup {sym} |->
                            IF s = sym THEN response ELSE company[s]]
          /\ perSymbolArticles' =
                [s \in DOMAIN perSymbolArticles \cup {sym} |->
                    IF s = sym THEN SymbolArticles(response) ELSE perSymbolArticles[s]]
          /\ keyOrder' = IF \E k \in 1..Len(keyOrder) : keyOrder[k] = sym
                          THEN keyOrder ELSE Append(keyOrder, sym)
    /\ pending' = pending \ {i}
    /\ pc' = IF pending' = {} THEN "merge" ELSE "fetching"
    /\ UNCHANGED <<digestVars, formatVars, watchVars, authVars, buttonVars, tokenConfigured, cleanSymbols, general, requests, result>>

\* Merge without the collected.length > 0 test of line 139: it returns what it has
MergeNoFallThrough ==
    /\ pc = "merge"
    /\ LET rr == RoundRobin(cleanSymbols, perSymbolArticles, <<>>, 0, 1) IN
       /\ perSymbolArticles' = rr.lists
       /\ result' = Take(SortByDatetimeDesc(rr.collected), maxArticles)
       /\ pc' = "done"
    /\ UNCHANGED <<digestVars, formatVars, watchVars, authVars, buttonVars, tokenConfigured, cleanSymbols, pending, company,
                 general, keyOrder, requests>>

\* Merge with its inner loop over Object.keys(perSymbolArticles) instead of
\* cleanSymbols: the symbols are visited in the order their requests completed
MergeInKeyOrder ==
    /\ pc = "merge"
    /\ LET rr == RoundRobin(keyOrder, perSymbolArticles, <<>>, 0, 1) IN
       /\ perSymbolArticles' = rr.lists
       /\ IF Len(rr.collected) > 0
          THEN /\ result' = Take(SortByDatetimeDesc(rr.collected), maxArticles)
               /\ pc' = "done"
          ELSE /\ result' = result
               /\ pc' = "general"
    /\ UNCHANGED <<digestVars, formatVars, watchVars, authVars, buttonVars, tokenConfigured, cleanSymbols, pending, company,
                 general, keyOrder, requests>>

\* lines 124-145: round-robin, then return the sorted items or fall through
Merge ==
    /\ pc = "merge"
    /\ LET rr == RoundRobin(cleanSymbols, perSymbolArticles, <<>>, 0, 1) IN
       /\ perSymbolArticles' = rr.lists
       /\ IF Len(rr.collected) > 0
          THEN /\ result' = Take(SortByDatetimeDesc(rr.collected), maxArticles)
               /\ pc' = "done"
          ELSE /\ result' = result
               /\ pc' = "general"
    /\ UNCHANGED <<digestVars, formatVars, watchVars, authVars, buttonVars, tokenConfigured, cleanSymbols, pending, company,
                 general, keyOrder, requests>>

\* lines 147-170: the general-news request and what is made of its response
General ==
    /\ pc = "general"
    /\ requests' = Append(requests, GeneralRequest)
    /\ \E response \in GeneralResponsesFor(cleanSymbols) :
          /\ general' = response
          /\ IF GeneralThrows(response)
             THEN /\ pc' = "raised"
                  /\ result' = result
             ELSE /\ pc' = "done"
                  /\ result' = GeneralNews(response.body)
    /\ UNCHANGED <<digestVars, formatVars, watchVars, authVars, buttonVars, tokenConfigured, cleanSymbols, pending, company,
                 perSymbolArticles, keyOrder>>

NextNews ==
    \/ \E symbols \in SymbolInputs : Begin(symbols)
    \/ \E i \in pending : SettleSymbol(i)
    \/ Merge
    \/ General

\* what the call did: how it ended and what it returned
Outcome == [status |-> pc, items |-> result]

\* getNews as a function of its argument (already cleaned: cs) and of the feed
NewsOutcome(cs, comp, gen) ==
    LET lists == [s \in {cs[k] : k \in 1..Len(cs)} |-> SymbolArticles(comp[s])]
        collected == IF Len(cs) > 0 THEN RoundRobin(cs, lists, <<>>, 0, 1).collected ELSE <<>>
    IN  IF Len(collected) > 0
        THEN [status |-> "done", items |-> Take(SortByDatetimeDesc(collected), maxArticles)]
        ELSE IF GeneralThrows(gen) THEN [status |-> "raised", items |-> <<>>]
        ELSE [status |-> "done", items |-> GeneralNews(gen.body)]

\* lines 90-171
getNews(symbols, hasToken, comp, gen) ==
    IF ~hasToken THEN [status |-> "raised", items |-> <<>>]
    ELSE NewsOutcome(CleanSymbols(symbols), comp, gen)

----------------------------------------------------------------------------
(* Properties of getNews *)

Ended == pc \in {"done", "raised"}

Range(seq) == {seq[k] : k \in 1..Len(seq)}

HasValid(response) == SymbolArticles(response) # <<>>

\* C3: a getNews call that returns yields at most 6 items, whatever the symbols
\* and the feed
C3_AtMostSix == pc = "done" => Len(result) <= 6

\* the cap cut something off: 6 items returned and articles left in a list
C3_Witness ==
    /\ pc = "done"
    /\ Len(result) = 6
    /\ \E s \in DOMAIN perSymbolArticles : perSymbolArticles[s] # <<>>

\* the same on the general path: 6 items returned of a longer feed
C3_GeneralCapReached ==
    /\ pc = "done"
    /\ Len(result) = 6
    /\ general.status = "ok" /\ Len(general.body) > 6

\* the feed with every failed company-news answer replaced by an empty list
FailuresAsEmpty(comp) ==
    [s \in DOMAIN comp |-> IF comp[s].status \in {"fail", "malformed"} THEN Ok(<<>>) ELSE comp[s]]

C5_FallsThroughToGeneral ==
    (Ended /\ tokenConfigured /\ Len(cleanSymbols) > 0
        /\ \A s \in DOMAIN company : ~HasValid(company[s])) =>
        /\ general # NotRequested
        /\ requests[Len(requests)] = GeneralRequest
        /\ Outcome = NewsOutcome(<<>>, company, general)
        /\ pc = "raised" <=> GeneralThrows(general)

\* a symbol's request failed, another answered only invalid articles, and
\* general news came back
C5_Witness ==
    /\ pc = "done"
    /\ result # <<>>
    /\ \E s, t \in DOMAIN company :
          /\ company[s].status = "fail"
          /\ company[t].status = "ok" /\ company[t].body # <<>>
    /\ \A s \in DOMAIN company : ~HasValid(company[s])

\* C6: without a token the call raises, returns nothing and requests nothing
C6_NoTokenHardStop ==
    ~tokenConfigured =>
        /\ pc \in {"start", "raised"}
        /\ requests = <<>>
        /\ pending = {}
        /\ result = <<>>

C6_Witness == ~tokenConfigured /\ pc = "raised"

IsNewestFirst(items) ==
    \A j, k \in 1..Len(items) : j < k => items[j].datetime >= items[k].datetime

\* C7: a call with at least one symbol returns its items newest first; a call
\* with no symbols returns them in upstream order
C7_NewestFirstWithSymbols ==
    pc = "done" =>
        /\ Len(cleanSymbols) > 0 => IsNewestFirst(result)
        /\ Len(cleanSymbols) = 0 => result = GeneralNews(general.body)

\* the first occurrences of the elements of seq, in order
RECURSIVE Distinct(_)
Distinct(seq) ==
    IF seq = <<>> THEN <<>>
    ELSE LET front == SubSeq(seq, 1, Len(seq) - 1)
             last == seq[Len(seq)]
         IN  IF last \in Range(front) THEN Distinct(front) ELSE Append(Distinct(front), last)

\* C8: the symbols are treated as a set: each distinct symbol is requested
\* once, and the call ends as it ends on the list without its duplicates
C8_SymbolsAreASet ==
    (Ended /\ tokenConfigured) =>
        /\ \A j, k \in 1..Len(requests) : requests[j] = requests[k] => j = k
        /\ Outcome = NewsOutcome(Distinct(cleanSymbols), company, general)

\* the part of C8 about the output alone
C8_SameOutputWithoutDuplicates ==
    (Ended /\ tokenConfigured) =>
        Outcome = NewsOutcome(Distinct(cleanSymbols), company, general)

\* how many of the first n items come from sym
TakenFrom(items, n, sym) == Cardinality({k \in 1..n : items[k].related = sym})

\* the items in the order the round-robin collects them, before the sort
Collected == RoundRobin(cleanSymbols, perSymbolArticles, <<>>, 0, 1).collected

\* the two consequences of one item per symbol per round, for the lists of
\* this state
RoundRobinFair ==
    /\ (\A s \in Range(cleanSymbols) : perSymbolArticles[s] # <<>>) =>
          /\ Len(Collected) >= Len(cleanSymbols)
          /\ \A s \in Range(cleanSymbols) : TakenFrom(Collected, Len(cleanSymbols), s) = 1
    /\ \A n \in 0..Len(Collected) :
          \A s, t \in Range(cleanSymbols) :
              (/\ TakenFrom(Collected, n, s) < Len(perSymbolArticles[s])
               /\ TakenFrom(Collected, n, t) < Len(perSymbolArticles[t])) =>
                  /\ TakenFrom(Collected, n, s) - TakenFrom(Collected, n, t) <= 1
                  /\ TakenFrom(Collected, n, t) - TakenFrom(Collected, n, s) <= 1

\* C13: round-robin fairness: with k <= 6 symbols that each have a valid
\* article the first k collected items hold exactly one article of each
\* symbol, and after any number of items the counts taken from two symbols
\* that both have items left differ by at most one
C13_RoundRobinFair ==
    (pc = "merge" /\ Len(cleanSymbols) <= maxArticles) => RoundRobinFair

\* the same for a list of symbols without duplicates
RoundRobinFairWhenDistinct ==
    (pc = "merge" /\ Distinct(cleanSymbols) = cleanSymbols) => RoundRobinFair

\* do two returned items come from the same upstream article
SameOrigin(a, b) == a.url = b.url /\ a.headline = b.headline /\ a.datetime = b.datetime

\* C14: no two items of the returned list derive from the same upstream
\* article, on either path
C14_NoDuplicateArticles ==
    pc = "done" =>
        \A j, k \in 1..Len(result) : SameOrigin(result[j], result[k]) => j = k

\* the part of C14 about the general-feed path
GeneralPathDeduplicated ==
    (pc = "done" /\ general # NotRequested) =>
        \A j, k \in 1..Len(result) : SameOrigin(result[j], result[k]) => j = k

AllFourPresent(raw) ==
    raw.headline # <<>> /\ raw.summary # <<>> /\ raw.url # <<>> /\ raw.datetime # 0

\* is feed[k] valid and not a repeat of an item before it
FirstOccurrence(feed, k) ==
    /\ AllFourPresent(feed[k])
    /\ \A j \in 1..(k - 1) :
          ~(feed[j].id = feed[k].id /\ feed[j].url = feed[k].url
                /\ feed[j].headline = feed[k].headline)

\* the general-mode formatting of the first 6 first occurrences, in feed order
FirstSixFormatted(feed) ==
    LET kept == SelectSeq([k \in 1..Len(feed) |-> k], LAMBDA k : FirstOccurrence(feed, k))
        top == Take(kept, 6)
    IN  [n \in 1..Len(top) |-> formatArticle(feed[top[n]], FALSE, <<>>, n - 1)]

\* C15: on the general-feed path the output is the general-mode formatting of
\* the first 6 upstream items that are valid and no repeat of an earlier item,
\* in upstream order; it is a function of the upstream payload
C15_GeneralPathOutput ==
    (pc = "done" /\ general # NotRequested) => result = FirstSixFormatted(general.body)

\* a repeated article was returned once
C15_Witness ==
    /\ pc = "done"
    /\ general.status = "ok"
    /\ Len(general.body) = 2
    /\ general.body[1] = general.body[2]
    /\ Len(result) = 1

\* the number of valid items the feeds of these symbols hold
RECURSIVE TotalValid(_)
TotalValid(symbols) ==
    IF symbols = {} THEN 0
    ELSE LET s == CHOOSE x \in symbols : TRUE IN
         Len(SelectSeq(company[s].body, AllFourPresent)) + TotalValid(symbols \ {s})

CompanyAnswered == pending = {} /\ pc \notin {"start", "fetching"}

\* C16: with distinct symbols whose valid-filtered lists hold T > 0 items in
\* all, the output has exactly min(6, T) items
C16_MinOfSixAndTotal ==
    (pc = "done" /\ Len(cleanSymbols) > 0 /\ Distinct(cleanSymbols) = cleanSymbols
        /\ TotalValid(Range(cleanSymbols)) > 0) =>
        Len(result) = Min(6, TotalValid(Range(cleanSymbols)))

\* lists of 4 and 1 items gave 5
C16_Witness ==
    /\ pc = "done"
    /\ Len(cleanSymbols) = 2
    /\ \E s, t \in Range(cleanSymbols) :
          /\ Len(SelectSeq(company[s].body, AllFourPresent)) = 4
          /\ Len(SelectSeq(company[t].body, AllFourPresent)) = 1
    /\ Len(result) = 5

\* a response without its invalid articles
StripInvalid(response) ==
    [response EXCEPT !.body = SelectSeq(response.body, AllFourPresent)]

\* the raw articles a returned item can come from: the item is the formatting
\* of one of them
DerivedFromValid(item) ==
    \/ \E s \in DOMAIN company : \E k \in 1..Len(company[s].body) :
          /\ AllFourPresent(company[s].body[k])
          /\ item = formatArticle(company[s].body[k], TRUE, s, 0)
    \/ \E k \in 1..Len(general.body) : \E index \in 0..5 :
          /\ AllFourPresent(general.body[k])
          /\ item = formatArticle(general.body[k], FALSE, <<>>, index)

\* C17: every returned item is the formatting of a raw item with headline,
\* summary, url and datetime all present, and the invalid items take no slot:
\* the call ends as it ends on the feed without them
C17_OnlyValidArticles ==
    (Ended /\ tokenConfigured) =>
        /\ \A k \in 1..Len(result) : DerivedFromValid(result[k])
        /\ Outcome = NewsOutcome(cleanSymbols,
                                 [s \in DOMAIN company |-> StripInvalid(company[s])],
                                 StripInvalid(general))

\* six items were returned from a feed whose invalid article stands before
\* valid ones
C17_Witness ==
    /\ pc = "done"
    /\ Len(result) = 6
    /\ \E s \in DOMAIN company :
          \E j, k \in 1..Len(company[s].body) :
              /\ j < k
              /\ ~AllFourPresent(company[s].body[j])
              /\ \E n \in 1..Len(result) : result[n].url = company[s].body[k].url

\* no symbol of the call has a valid article: nothing is collected
NothingCollected ==
    \A s \in Range(cleanSymbols) :
        company[s].status # "ok" \/ \A k \in 1..Len(company[s].body) : ~AllFourPresent(company[s].body[k])

FailedSymbolsDoNotRaise ==
    /\ pc = "done"
    /\ \E s, t \in Range(cleanSymbols) : company[s].status = "fail" /\ HasValid(company[t])

\* C23: for a given symbol list and given upstream responses the output is the
\* same, in content and in order, whatever the order in which the per-symbol
\* requests complete
C23_CompletionOrderIrrelevant ==
    (Ended /\ tokenConfigured) => Outcome = NewsOutcome(cleanSymbols, company, general)

\* the request of the second symbol completed before that of the first, and
\* articles of both were returned
C23_Witness ==
    /\ pc = "done"
    /\ cleanSymbols = <<<<"A">>, <<"B">>>>
    /\ keyOrder = <<<<"B">>, <<"A">>>>
    /\ \E j, k \in 1..Len(result) : result[j].related = <<"A">> /\ result[k].related = <<"B">>

\* the call returned from the symbol-driven path
SymbolPathReturned == pc = "done" /\ general = NotRequested /\ Len(cleanSymbols) > 0

\* the valid articles of the response for symbol s, in upstream order
ValidList(s) == SelectSeq(company[s].body, AllFourPresent)

\* C24: on the symbol-driven path the items taken from a symbol are a prefix of
\* its valid-filtered list, each taken once, what is left of the list is the
\* rest of it, and every returned item has the symbol of its list as related
C24_PrefixConsumedOnce ==
    SymbolPathReturned =>
        /\ \A n \in 1..Len(result) : result[n].related \in Range(cleanSymbols)
        /\ \A s \in Range(cleanSymbols) :
              LET taken == Len(ValidList(s)) - Len(perSymbolArticles[s])
                  mine == {n \in 1..Len(result) : result[n].related = s}
              IN  /\ taken >= 0
                  /\ perSymbolArticles[s] = SubSeq(ValidList(s), taken + 1, Len(ValidList(s)))
                  /\ Cardinality(mine) = taken
                  /\ \A j \in 1..taken :
                        \E n \in mine : result[n] = formatArticle(ValidList(s)[j], TRUE, s, 0)
                  /\ \A m, n \in mine : result[m].url = result[n].url => m = n

\* two symbols, one list consumed in part and one in full
C24_Witness ==
    /\ SymbolPathReturned
    /\ Len(result) = 6
    /\ \E s, t \in Range(cleanSymbols) :
          /\ perSymbolArticles[s] # <<>> /\ Len(perSymbolArticles[s]) < Len(ValidList(s))
          /\ perSymbolArticles[t] = <<>> /\ Len(ValidList(t)) >= 2

\* the call returned from the general-feed path with a well-formed payload
GeneralPathReturned == pc = "done" /\ general.status = "ok"

AgreeOnAllThree(a, b) == a.id = b.id /\ a.url = b.url /\ a.headline = b.headline

\* is feed[k] returned: some item of the result is its formatting
Kept(feed, k) ==
    \E n \in 1..Len(result) : result[n] = formatArticle(feed[k], FALSE, <<>>, n - 1)

\* C26: on the general-feed path a valid item that differs from every valid
\* item before it in at least one of id, url and headline is kept, and the
\* items dropped are exactly those that agree with an earlier one on all three
\* (for feeds no longer than the cap)
C26_DuplicateIffAllThreeAgree ==
    (GeneralPathReturned /\ Len(general.body) <= 6) =>
        /\ \A k \in 1..Len(general.body) :
              (/\ AllFourPresent(general.body[k])
               /\ \A j \in 1..(k - 1) :
                     AllFourPresent(general.body[j]) =>
                         ~AgreeOnAllThree(general.body[j], general.body[k])) =>
                  Kept(general.body, k)
        /\ Len(result) =
              Cardinality({k \in 1..Len(general.body) : FirstOccurrence(general.body, k)})

\* items that differ in one of the three alone are both kept
OneFieldApartBothKept ==
    (GeneralPathReturned /\ Len(general.body) = 2
        /\ general.body[1] = G1
        /\ general.body[2] \in {G1OtherId, G1OtherUrl, G1OtherHeadline}) =>
        Len(result) = 2

\* C27: in a list returned by the general-feed path the formatted ids are
\* pairwise distinct whenever the upstream items have distinct ids
C27_FormattedIdsDistinct ==
    (GeneralPathReturned
        /\ \A j, k \in 1..Len(general.body) :
              general.body[j].id = general.body[k].id => j = k) =>
        \A m, n \in 1..Len(result) : result[m].id = result[n].id => m = n

----------------------------------------------------------------------------
(* The daily digest: lib/inngest/functions.ts, with the collaborators it calls *)

\* the k-th document of the user collection; a "bad" one lacks its name or its email
UserDoc(k, kind) ==
    LET bad == kind = "bad" IN
    [id    |-> <<"i">> \o NumStr(k),
     email |-> IF bad /\ k % 2 = 0 THEN <<>> ELSE <<"u">> \o NumStr(k),
     name  |-> IF bad /\ k % 2 = 1 THEN <<>> ELSE <<"n">> \o NumStr(k)]

Directories ==
    {Failed}
        \cup {Ok([k \in DOMAIN kinds |-> UserDoc(k, kinds[k])]) :
                kinds \in SeqsUpTo({"ok", "bad"}, MaxUsers)}

\* lib/actions/user.actions.ts
getAllUsersFormNewsEmail(answer) ==
    IF answer.status # "ok" THEN <<>>
    ELSE SelectSeq(answer.body, LAMBDA user : user.email # <<>> /\ user.name # <<>>)

\* what the watchlist store answers for one email
WatchlistAnswers == {Failed, Ok(<<>>), Ok(<<<<"A">>>>)}

\* lib/actions/watchlist.actions.ts
getWatchlistSymbolsByEmail(email, answer) ==
    IF email = <<>> THEN <<>>
    ELSE IF answer.status # "ok" THEN <<>>
    ELSE answer.body

\* how many articles a getNews call of the run returns: none, or one of the
\* MaxNews greatest numbers that its cap allows
NewsSizes == {0} \cup {maxArticles + 1 - k : k \in 1..MaxNews}

\* n articles of one feed, named by the feed and their position
NewsItems(feed, n) == [k \in 1..n |-> [feed |-> feed, k |-> k]]

\* what getNews(symbols) can end with in the run: it raises, or returns
\* articles of the general feed, or, given symbols, company news
NewsAnswers(symbols) ==
    {[status |-> "raised", items |-> <<>>]}
        \cup {[status |-> "done", items |-> NewsItems("general", n)] : n \in NewsSizes}
        \cup (IF symbols = <<>> THEN {}
              ELSE {[status |-> "done", items |-> NewsItems("company", n)] :
                        n \in NewsSizes \ {0}})

NotCalled == [status |-> "none", items |-> <<>>]

DigestCap == 6

\* UserArticles without the second call of lines 151-154
UserArticlesNoFallback(first, second) ==
    IF first.status = "raised" THEN <<>> ELSE Take(first.items, DigestCap)

\* lines 145-159: the articles of one user, given what the getNews calls answer
UserArticles(first, second) ==
    IF first.status = "raised" THEN <<>>
    ELSE LET articles == Take(first.items, DigestCap) IN
         IF Len(articles) = 0
         THEN IF second.status = "raised" THEN <<>> ELSE Take(second.items, DigestCap)
         ELSE articles

\* what step.ai.infer can end with
InferAnswers ==
    {[status |-> "throw", hasPart |-> FALSE, text |-> ""],
     [status |-> "ok", hasPart |-> FALSE, text |-> ""],
     [status |-> "ok", hasPart |-> TRUE, text |-> ""],
     [status |-> "ok", hasPart |-> TRUE, text |-> "summary"]}

NullContent == [isNull |-> TRUE, text |-> ""]

\* NewsContent without the fallback text of line 183
NewsContentNoFallback(answer) ==
    IF answer.status = "throw" THEN NullContent
    ELSE [isNull |-> FALSE, text |-> IF answer.hasPart THEN answer.text ELSE ""]

\* lines 168-189: the newsContent stored for one user
NewsContent(answer) ==
    IF answer.status = "throw" THEN NullContent
    ELSE LET text == IF answer.hasPart THEN answer.text ELSE "" IN
         [isNull |-> FALSE, text |-> IF text # "" THEN text ELSE "No market news."]

\* Falsy that lets a null summary through: only the empty string is skipped
FalsyEmptyTextOnly(newsContent) == ~newsContent.isNull /\ newsContent.text = ""

\* !newsContent
Falsy(newsContent) == newsContent.isNull \/ newsContent.text = ""

Running == [kind |-> "running", success |-> FALSE, message |-> ""]
Raised == [kind |-> "raised", success |-> FALSE, message |-> ""]
Returned(success, message) == [kind |-> "returned", success |-> success, message |-> message]

DigestIdle ==
    /\ dpc = "resolve"
    /\ users = <<>>
    /\ results = <<>>
    /\ newsLog = <<>>
    /\ userNewsSummaries = <<>>
    /\ inferLog = <<>>
    /\ delivery = <<>>
    /\ directory = NotRequested
    /\ outbox = <<>>
    /\ outcome = Running

\* ResolveUsers without the early return of lines 138-139: with no users the
\* loops run over nothing and the run goes on to the delivery step
ResolveUsersNoEarlyExit ==
    /\ dpc = "resolve"
    /\ \E answer \in Directories :
          /\ directory' = answer
          /\ users' = getAllUsersFormNewsEmail(answer)
    /\ dpc' = IF Len(users') = 0 THEN "deliver" ELSE "fetch"
    /\ UNCHANGED <<newsVars, formatVars, watchVars, authVars, buttonVars, results, newsLog, userNewsSummaries, inferLog, delivery, outbox, outcome>>

\* lines 136-139
ResolveUsers ==
    /\ dpc = "resolve"
    /\ \E answer \in Directories :
          /\ directory' = answer
          /\ users' = getAllUsersFormNewsEmail(answer)
    /\ IF Len(users') = 0
       THEN /\ dpc' = "finished"
            /\ outcome' = Returned(FALSE, "No users found for news email")
       ELSE /\ dpc' = "fetch"
            /\ outcome' = outcome
    /\ UNCHANGED <<newsVars, formatVars, watchVars, authVars, buttonVars, results, newsLog, userNewsSummaries, inferLog, delivery, outbox>>

\* FetchUserNews without the try/catch of lines 145-159: a getNews call that
\* raises fails the step and the run
FetchUserNewsNoCatch ==
    /\ dpc = "fetch"
    /\ LET user == users[Len(results) + 1] IN
       \E lookup \in WatchlistAnswers :
       \E first \in NewsAnswers(getWatchlistSymbolsByEmail(user.email, lookup)),
          second \in NewsAnswers(<<>>) :
          LET fallback == first.status = "done" /\ Len(Take(first.items, DigestCap)) = 0
              raises == first.status = "raised" \/ (fallback /\ second.status = "raised")
          IN
          /\ results' = IF raises THEN results
                        ELSE Append(results, [user |-> user, articles |-> UserArticles(first, second)])
          /\ newsLog' = Append(newsLog,
                               [symbols |-> getWatchlistSymbolsByEmail(user.email, lookup),
                                first |-> first,
                                second |-> IF fallback THEN second ELSE NotCalled])
          /\ dpc' = IF raises THEN "finished"
                    ELSE IF Len(results') = Len(users) THEN "summarize" ELSE "fetch"
          /\ outcome' = IF raises THEN Raised ELSE outcome
    /\ UNCHANGED <<newsVars, formatVars, watchVars, authVars, buttonVars, users, userNewsSummaries, inferLog, delivery, directory, outbox>>

\* FetchUserNews that hands over to the summarization loop after its first
\* user instead of after its last
FetchUserNewsReturnsEarly ==
    /\ dpc = "fetch"
    /\ LET user == users[Len(results) + 1] IN
       \E lookup \in WatchlistAnswers :
       \E first \in NewsAnswers(getWatchlistSymbolsByEmail(user.email, lookup)),
          second \in NewsAnswers(<<>>) :
          LET fallback == first.status = "done" /\ Len(Take(first.items, DigestCap)) = 0 IN
          /\ results' = Append(results, [user |-> user, articles |-> UserArticles(first, second)])
          /\ newsLog' = Append(newsLog,
                               [symbols |-> getWatchlistSymbolsByEmail(user.email, lookup),
                                first |-> first,
                                second |-> IF fallback THEN second ELSE NotCalled])
    /\ dpc' = "summarize"
    /\ UNCHANGED <<newsVars, formatVars, watchVars, authVars, buttonVars, users, userNewsSummaries, inferLog, delivery, directory, outbox, outcome>>

\* lines 144-161: one turn of the loop of fetch-user-news, for the next user
FetchUserNews ==
    /\ dpc = "fetch"
    /\ LET user == users[Len(results) + 1] IN
       \E lookup \in WatchlistAnswers :
       \E first \in NewsAnswers(getWatchlistSymbolsByEmail(user.email, lookup)),
          second \in NewsAnswers(<<>>) :
          LET fallback == first.status = "done" /\ Len(Take(first.items, DigestCap)) = 0 IN
          /\ results' = Append(results, [user |-> user, articles |-> UserArticles(first, second)])
          /\ newsLog' = Append(newsLog,
                               [symbols |-> getWatchlistSymbolsByEmail(user.email, lookup),
                                first |-> first,
                                second |-> IF fallback THEN second ELSE NotCalled])
    /\ dpc' = IF Len(results') = Len(users) THEN "summarize" ELSE "fetch"
    /\ UNCHANGED <<newsVars, formatVars, watchVars, authVars, buttonVars, users, userNewsSummaries, inferLog, delivery, directory, outbox, outcome>>

\* SummarizeUser without the try/catch of lines 168-189: a failed inference
\* ends the run
SummarizeUserNoCatch ==
    /\ dpc = "summarize"
    /\ LET entry == results[Len(userNewsSummaries) + 1] IN
       \E answer \in InferAnswers :
          /\ inferLog' = Append(inferLog, answer.status)
          /\ IF answer.status = "throw"
             THEN /\ dpc' = "finished"
                  /\ outcome' = Raised
                  /\ userNewsSummaries' = userNewsSummaries
             ELSE /\ userNewsSummaries' =
                        Append(userNewsSummaries,
                               [user |-> entry.user, newsContent |-> NewsContent(answer)])
                  /\ dpc' = IF Len(userNewsSummaries') = Len(results) THEN "deliver" ELSE "summarize"
                  /\ outcome' = outcome
    /\ UNCHANGED <<newsVars, formatVars, watchVars, authVars, buttonVars, users, results, newsLog, delivery, directory, outbox>>

\* lines 167-190: one turn of the summarization loop, for the next user
SummarizeUser ==
    /\ dpc = "summarize"
    /\ LET entry == results[Len(userNewsSummaries) + 1] IN
       \E answer \in InferAnswers :
          /\ userNewsSummaries' =
                Append(userNewsSummaries, [user |-> entry.user, newsContent |-> NewsContent(answer)])
          /\ inferLog' = Append(inferLog, answer.status)
    /\ dpc' = IF Len(userNewsSummaries') = Len(results) THEN "deliver" ELSE "summarize"
    /\ UNCHANGED <<newsVars, formatVars, watchVars, authVars, buttonVars, users, results, newsLog, delivery, directory, outbox, outcome>>

Recipients == {i \in 1..Len(userNewsSummaries) : ~Falsy(userNewsSummaries[i].newsContent)}

RECURSIVE Mails(_)
Mails(n) ==
    IF n = 0 THEN <<>>
    ELSE Mails(n - 1) \o
         (IF n \in Recipients
          THEN <<[email |-> userNewsSummaries[n].user.email,
                  newsContent |-> userNewsSummaries[n].newsContent.text]>>
          ELSE <<>>)

\* lines 193-203: the callbacks of the map run, each up to its sendMail call
StartDeliveries ==
    /\ dpc = "deliver"
    /\ delivery' = [i \in 1..Len(userNewsSummaries) |->
                        IF i \in Recipients THEN "pending" ELSE "skipped"]
    /\ outbox' = Mails(Len(userNewsSummaries))
    /\ IF Recipients = {}
       THEN /\ dpc' = "finished"
            /\ outcome' = Returned(TRUE, "Daily news summary emails sent successfully")
       ELSE /\ dpc' = "delivering"
            /\ outcome' = outcome
    /\ UNCHANGED <<newsVars, formatVars, watchVars, authVars, buttonVars, users, results, newsLog, userNewsSummaries, inferLog, directory>>

\* lines 194-210 and 321-325: one sendMail settles; Promise.all rejects with the
\* first rejection and resolves with the last fulfilment
SettleDelivery(i) ==
    /\ dpc \in {"delivering", "finished"}
    /\ i \in DOMAIN delivery
    /\ delivery[i] = "pending"
    /\ \E sent \in BOOLEAN :
          /\ delivery' = [delivery EXCEPT ![i] = IF sent THEN "sent" ELSE "failed"]
          /\ IF dpc = "delivering" /\ ~sent
             THEN /\ dpc' = "finished"
                  /\ outcome' = Raised
             ELSE IF dpc = "delivering" /\ \A j \in DOMAIN delivery : delivery'[j] \in {"sent", "skipped"}
             THEN /\ dpc' = "finished"
                  /\ outcome' = Returned(TRUE, "Daily news summary emails sent successfully")
             ELSE UNCHANGED <<dpc, outcome>>
    /\ UNCHANGED <<newsVars, formatVars, watchVars, authVars, buttonVars, users, results, newsLog, userNewsSummaries, inferLog, directory, outbox>>

NextDigest ==
    \/ ResolveUsers
    \/ FetchUserNews
    \/ SummarizeUser
    \/ StartDeliveries
    \/ \E i \in DOMAIN delivery : SettleDelivery(i)

----------------------------------------------------------------------------
(* Properties of the daily digest *)

Success == Returned(TRUE, "Daily news summary emails sent successfully")

DeliveryStarted == dpc = "delivering" \/ (dpc = "finished" /\ Len(users) > 0)

\* how many emails were handed to the mailer for this address
Attempts(email) == Cardinality({k \in 1..Len(outbox) : outbox[k].email = email})

\* C1: with at least one recipient the run returns success: true, also when
\* the delivery to some recipient fails
C1_DeliveryFailureSwallowed ==
    (dpc = "finished" /\ Len(users) > 0) => outcome = Success

\* C2: a summarization that throws leaves a null summary for that recipient
\* and nothing else: the run goes on, every other recipient has a summary and
\* a delivery attempt, and the run returns success: true unless a delivery fails
C2_SummarizationIsolated ==
    /\ dpc \in {"fetch", "summarize", "deliver"} => outcome = Running
    /\ \A i \in 1..Len(userNewsSummaries) :
          /\ userNewsSummaries[i].user = users[i]
          /\ inferLog[i] = "throw" => userNewsSummaries[i].newsContent = NullContent
          /\ inferLog[i] # "throw" => ~userNewsSummaries[i].newsContent.isNull
    /\ DeliveryStarted =>
          /\ Len(userNewsSummaries) = Len(users)
          /\ \A i \in 1..Len(users) :
                inferLog[i] # "throw" => Attempts(users[i].email) >= 1 /\ delivery[i] # "skipped"
          /\ (dpc = "finished" /\ \A i \in 1..Len(users) : delivery[i] # "failed") =>
                outcome = Success
    /\ outcome = Raised => \E i \in DOMAIN delivery : delivery[i] = "failed"

\* one summarization threw, another recipient's email went out, and the run
\* returned success
C2_Witness ==
    /\ dpc = "finished"
    /\ outcome = Success
    /\ \E i, j \in 1..Len(users) : inferLog[i] = "throw" /\ delivery[j] = "sent"

\* C9: one delivery attempt for each recipient whose summarization returned
\* (with the fallback text when it returned none), no attempt for one whose
\* summarization failed, and a null summary exactly for the latter
C9_OneAttemptPerSummary ==
    /\ \A i \in 1..Len(userNewsSummaries) :
          userNewsSummaries[i].newsContent.isNull <=> inferLog[i] = "throw"
    /\ ~DeliveryStarted => outbox = <<>>
    /\ DeliveryStarted =>
          /\ Len(inferLog) = Len(users)
          /\ \A i \in 1..Len(users) :
                /\ Attempts(users[i].email) = IF inferLog[i] = "throw" THEN 0 ELSE 1
                /\ \A k \in 1..Len(outbox) :
                      outbox[k].email = users[i].email =>
                          /\ outbox[k].newsContent = userNewsSummaries[i].newsContent.text
                          /\ outbox[k].newsContent # ""
          /\ \A k \in 1..Len(outbox) : \E i \in 1..Len(users) : outbox[k].email = users[i].email

\* the fallback text was sent to one recipient and nothing to another, whose
\* summarization failed
C9_Witness ==
    /\ DeliveryStarted
    /\ \E k \in 1..Len(outbox) : outbox[k].newsContent = "No market news."
    /\ \E i \in 1..Len(users) : inferLog[i] = "throw" /\ Attempts(users[i].email) = 0

\* did the news step of the user with this log raise
NewsRaised(log) == log.first.status = "raised" \/ log.second.status = "raised"

\* the articles a user's own getNews answers give
OwnArticles(log) ==
    IF NewsRaised(log) THEN <<>>
    ELSE IF log.first.items # <<>> THEN log.first.items
    ELSE log.second.items

\* C10: the fetch stage yields one entry per resolved recipient, in recipient
\* order; a recipient whose news step raised has an empty list, and every
\* recipient's list depends on the answers to its own calls only
C10_FetchKeepsEveryRecipient ==
    /\ Len(results) = Len(newsLog)
    /\ Len(results) <= Len(users)
    /\ \A i \in 1..Len(results) :
          /\ results[i].user = users[i]
          /\ results[i].articles = OwnArticles(newsLog[i])
    /\ (dpc \notin {"resolve", "fetch"} /\ Len(users) > 0) => Len(results) = Len(users)

\* the first recipient's news step raised and the second still has its articles
C10_Witness ==
    /\ dpc = "summarize"
    /\ Len(results) >= 2
    /\ NewsRaised(newsLog[1])
    /\ results[1].articles = <<>>
    /\ results[2].articles # <<>>

\* the claim as stated: a recipient whose news step raised, or whose
\* summarization failed, has no delivery attempt
C11_FailedUnitGetsNoDelivery ==
    DeliveryStarted =>
        \A i \in 1..Len(users) :
            (NewsRaised(newsLog[i]) \/ inferLog[i] = "throw") => Attempts(users[i].email) = 0

\* C11: a recipient whose summarization failed has no delivery attempt; a
\* recipient whose news step raised is kept with an empty article list, is
\* summarized like the others, and has one delivery attempt unless its
\* summarization failed
C11_OnlySummarizationFailureSkips ==
    /\ \A i \in 1..Len(results) : NewsRaised(newsLog[i]) => results[i].articles = <<>>
    /\ dpc \in {"deliver", "delivering", "finished"} /\ Len(users) > 0 =>
          Len(inferLog) = Len(users)
    /\ DeliveryStarted =>
          \A i \in 1..Len(users) :
              /\ inferLog[i] = "throw" =>
                    Attempts(users[i].email) = 0 /\ delivery[i] = "skipped"
              /\ (NewsRaised(newsLog[i]) /\ inferLog[i] # "throw") =>
                    Attempts(users[i].email) = 1 /\ delivery[i] # "skipped"

\* one recipient's news step raised and its email was sent; another's
\* summarization failed and it was skipped
C11_Witness ==
    /\ dpc = "finished"
    /\ \E i, j \in 1..Len(users) :
          /\ NewsRaised(newsLog[i]) /\ delivery[i] = "sent"
          /\ inferLog[j] = "throw" /\ delivery[j] = "skipped"

NoUsersMessage == Returned(FALSE, "No users found for news email")

\* C12: when no user is resolved, also because the user store failed, the run
\* returns success: false with its message and makes no watchlist lookup, no
\* getNews call, no inference call and no delivery
C12_NoUsersEarlyExit ==
    (dpc # "resolve" /\ Len(users) = 0) =>
        /\ dpc = "finished"
        /\ outcome = NoUsersMessage
        /\ newsLog = <<>>
        /\ results = <<>>
        /\ inferLog = <<>>
        /\ userNewsSummaries = <<>>
        /\ delivery = <<>>
        /\ outbox = <<>>

\* the user store failed and the run ended with the early return
C12_Witness ==
    /\ dpc = "finished"
    /\ directory = Failed
    /\ users = <<>>
    /\ outcome = NoUsersMessage

Rank(stage) ==
    CASE stage = "resolve" -> 0
      [] stage = "fetch" -> 1
      [] stage = "summarize" -> 2
      [] stage = "deliver" -> 3
      [] stage = "delivering" -> 4
      [] stage = "finished" -> 5

StagesInOrder ==
    /\ (results # <<>> \/ newsLog # <<>>) => (directory # NotRequested /\ dpc # "resolve")
    /\ dpc = "fetch" => Len(results) < Len(users)
    /\ inferLog # <<>> =>
          /\ Len(results) = Len(users)
          /\ Len(newsLog) = Len(users)
          /\ Rank(dpc) >= 2
    /\ dpc = "summarize" => Len(inferLog) < Len(users)
    /\ (outbox # <<>> \/ delivery # <<>>) =>
          /\ Len(inferLog) = Len(users)
          /\ Len(userNewsSummaries) = Len(users)
          /\ Rank(dpc) >= 4

StageStep ==
    /\ Rank(dpc') >= Rank(dpc)
    /\ Len(results') > Len(results) => dpc = "fetch"
    /\ Len(inferLog') > Len(inferLog) => dpc = "summarize"
    /\ outbox' # outbox => dpc = "deliver"

\* C20: the stages run in the order resolve, fetch, summarize, deliver: no
\* inference call is made before the news step is done for every recipient,
\* and no delivery starts before the summarization loop is done for every
\* recipient
C20_StagesInOrder == []StagesInOrder /\ [][StageStep]_vars

\* two recipients went through the four stages and both were mailed
C20_Witness ==
    /\ dpc = "delivering"
    /\ Len(users) = 2
    /\ Len(outbox) = 2

\* C21: the run does not finish, by returning or by raising, while a delivery
\* it started is pending
C21_NoFinishWhilePending ==
    dpc = "finished" => \A i \in DOMAIN delivery : delivery[i] # "pending"

\* the same for the runs that return
ReturnsOnlyWhenAllSettled ==
    (dpc = "finished" /\ outcome.kind = "returned") =>
        \A i \in DOMAIN delivery : delivery[i] # "pending"

\* C25: for a recipient whose news step does not raise, the articles handed to
\* the summarization are at most 6, and are what getNews(watchlist symbols)
\* returned when that is not empty, else what a second call without symbols
\* returned; the second call is made exactly when the first returned an empty
\* list; after a failed watchlist lookup getNews is called with no symbols, so
\* the articles are general-feed articles
C25_ArticlesOfRecipient ==
    \A i \in 1..Len(results) :
        LET log == newsLog[i] IN
        /\ log.second # NotCalled <=> (log.first.status = "done" /\ log.first.items = <<>>)
        /\ ~NewsRaised(log) =>
              /\ Len(results[i].articles) <= 6
              /\ results[i].articles =
                    IF log.first.items # <<>> THEN log.first.items ELSE log.second.items
              /\ log.symbols = <<>> =>
                    \A k \in 1..Len(results[i].articles) : results[i].articles[k].feed = "general"

\* one recipient got the six articles of its watchlist symbols, another the
\* six of the second call
C25_Witness ==
    /\ Len(results) = 2
    /\ \E i, j \in 1..2 :
          /\ newsLog[i].symbols # <<>> /\ newsLog[i].second = NotCalled
          /\ Len(results[i].articles) = 6 /\ results[i].articles[1].feed = "company"
          /\ newsLog[j].first.status = "done" /\ newsLog[j].first.items = <<>>
          /\ Len(results[j].articles) = 6 /\ results[j].articles = newsLog[j].second.items

\* the watchlist lookup of the recipient failed
LookupFailedGeneralNews ==
    /\ Len(results) >= 1
    /\ newsLog[1].symbols = <<>>
    /\ results[1].articles # <<>>

----------------------------------------------------------------------------
(* One formatArticle call on a validated article *)

Blanks(n) == [k \in 1..n |-> " "]

\* n characters that are not blank at either end; with inner, the second is a blank
Text(n, inner) == [k \in 1..n |-> IF inner /\ k = 2 /\ n >= 3 THEN " " ELSE "x"]

\* the summaries formatArticle is given: text of up to MaxSummary characters
\* with blanks around it, never the empty string (validateArticle passed)
Summaries ==
    {Blanks(lead) \o Text(n, inner) \o Blanks(trail) :
        lead \in 0..1, n \in 0..MaxSummary, inner \in BOOLEAN, trail \in 0..1}
        \ {<<>>}

FormatIdle ==
    /\ fpc = "idle"
    /\ fmtArticle = G2
    /\ fmtCompany = FALSE
    /\ fmtResult = <<>>

FormatInput ==
    /\ fpc = "input"
    /\ \E summary \in Summaries : fmtArticle = [G2 EXCEPT !.summary = summary]
    /\ fmtCompany \in BOOLEAN
    /\ fmtResult = <<>>

\* lines 179-195: the call returns
Format ==
    /\ fpc = "input"
    /\ fmtResult' = formatArticle(fmtArticle, fmtCompany, <<"A">>, 0)
    /\ fpc' = "formatted"
    /\ UNCHANGED <<newsVars, digestVars, watchVars, authVars, buttonVars, fmtArticle, fmtCompany>>

NextFormat == Format

\* the length of s without the blanks at its two ends
RECURSIVE LeadingBlanks(_)
LeadingBlanks(s) == IF s # <<>> /\ Head(s) = " " THEN 1 + LeadingBlanks(Tail(s)) ELSE 0

Reverse(s) == [k \in 1..Len(s) |-> s[Len(s) + 1 - k]]

TrimmedLength(s) ==
    IF LeadingBlanks(s) = Len(s) THEN 0
    ELSE Len(s) - LeadingBlanks(s) - LeadingBlanks(Reverse(s))

\* C18: the formatted summary has min(length of the trimmed summary, cap) + 3
\* characters, cap being 200 in company mode and 150 otherwise, and ends with
\* the three-character ellipsis whether or not anything was cut
C18_SummaryLength ==
    fpc = "formatted" =>
        LET cap == IF fmtCompany THEN 200 ELSE 150
            length == Len(fmtResult.summary)
        IN  /\ length = Min(TrimmedLength(fmtArticle.summary), cap) + 3
            /\ SubSeq(fmtResult.summary, length - 2, length) = <<".", ".", ".">>

\* a 300-character summary in company mode gave 203 characters
C18_Witness ==
    /\ fpc = "formatted"
    /\ fmtCompany
    /\ TrimmedLength(fmtArticle.summary) = 300
    /\ Len(fmtResult.summary) = 203

\* a summary shorter than the cap got its ellipsis too
C18_ShortSummary ==
    /\ fpc = "formatted"
    /\ ~fmtCompany
    /\ TrimmedLength(fmtArticle.summary) = 5
    /\ Len(fmtResult.summary) = 8

----------------------------------------------------------------------------
(* Concurrent addToWatchlist calls of one signed-in user:                  *)
(* lib/actions/watchlist.actions.ts and database/models/watchlist.model.ts *)

Calls == 1..MaxCalls

\* session.user.id of the caller
UserId == "u1"

\* the symbols a call is made with
WatchSymbols == {<<"a">>, <<"A">>, <<"B">>}

\* the document new Watchlist({userId, symbol: symbol.toUpperCase(), ...}) saves
WatchlistDoc(symbol) == [userId |-> UserId, symbol |-> ToUpperCase(Trim(ToUpperCase(symbol)))]

NoOutcome == [kind |-> "none", success |-> FALSE, text |-> ""]
Added == [kind |-> "returned", success |-> TRUE, text |-> "Stock added to watchlist"]
AlreadyInWatchlist == [kind |-> "returned", success |-> FALSE, text |-> "Stock already in watchlist"]
FailedToAdd == [kind |-> "raised", success |-> FALSE, text |-> "Failed to add stock to watchlist"]

IdleCall == [pc |-> "idle", symbol |-> <<>>, outcome |-> NoOutcome]

WatchIdle ==
    /\ watchlist = <<>>
    /\ calls = [c \in Calls |-> IdleCall]

\* Watchlist.findOne({userId, symbol})
FindOneResult(userId, symbol) ==
    \E k \in 1..Len(watchlist) :
        watchlist[k].userId = userId /\ watchlist[k].symbol = symbol

\* the unique index on {userId, symbol} rejects the insertion of doc
IndexRejects(doc) ==
    \E k \in 1..Len(watchlist) :
        watchlist[k].userId = doc.userId /\ watchlist[k].symbol = doc.symbol

\* lines 86-90: the call is made and its session is read
Invoke(c, symbol) ==
    /\ calls[c].pc = "idle"
    /\ calls' = [calls EXCEPT ![c] = [pc |-> "find", symbol |-> symbol, outcome |-> NoOutcome]]
    /\ UNCHANGED <<newsVars, digestVars, formatVars, authVars, buttonVars, watchlist>>

\* lines 93-100: the existence check and the early return
FindOne(c) ==
    /\ calls[c].pc = "find"
    /\ calls' = IF FindOneResult(UserId, ToUpperCase(calls[c].symbol))
                THEN [calls EXCEPT ![c].pc = "returned", ![c].outcome = AlreadyInWatchlist]
                ELSE [calls EXCEPT ![c].pc = "save"]
    /\ UNCHANGED <<newsVars, digestVars, formatVars, authVars, buttonVars, watchlist>>

\* lines 103-117: the save; a rejected insertion lands in the catch block,
\* which throws the generic error
Save(c) ==
    /\ calls[c].pc = "save"
    /\ LET newItem == WatchlistDoc(calls[c].symbol) IN
       IF IndexRejects(newItem)
       THEN /\ watchlist' = watchlist
            /\ calls' = [calls EXCEPT ![c].pc = "raised", ![c].outcome = FailedToAdd]
       ELSE /\ watchlist' = Append(watchlist, newItem)
            /\ calls' = [calls EXCEPT ![c].pc = "returned", ![c].outcome = Added]
    /\ UNCHANGED <<newsVars, digestVars, formatVars, authVars, buttonVars>>

NextWatch ==
    \/ \E c \in Calls, symbol \in WatchSymbols : Invoke(c, symbol)
    \/ \E c \in Calls : FindOne(c)
    \/ \E c \in Calls : Save(c)

\* no two documents of the collection have the same (userId, symbol)
WatchlistUnique ==
    \A j, k \in 1..Len(watchlist) :
        (watchlist[j].userId = watchlist[k].userId /\ watchlist[j].symbol = watchlist[k].symbol)
            => j = k

\* C19: under any interleaving, a call for a symbol that is in the watchlist
\* when the call checks or saves returns {success: false, error: "Stock
\* already in watchlist"} and does not raise, and the watchlist never holds
\* two entries for one (userId, symbol)
C19_DuplicateIsReturnedNotRaised ==
    /\ \A c \in Calls :
          (calls[c].pc \in {"returned", "raised"} /\ calls[c].outcome # Added) =>
              calls[c].outcome = AlreadyInWatchlist
    /\ WatchlistUnique

\* two calls for one symbol both passed the existence check before either saved
BothPastTheCheck ==
    \E c, d \in Calls :
        /\ c # d
        /\ calls[c].pc = "save" /\ calls[d].pc = "save"
        /\ WatchlistDoc(calls[c].symbol) = WatchlistDoc(calls[d].symbol)

----------------------------------------------------------------------------
(* lib/better-auth/auth.ts: the lazily built BetterAuth instance, the      *)
(* module's own `export const auth = await getAuth()` and later callers    *)

\* call 0 is the one the module makes while it is evaluated; the others are
\* made by code that imported the module
AuthCallers == 0..MaxAuthCalls

\* a call that has not been made
IdleAuthCall == [pc |-> "idle", got |-> 0]

\* let authInstance = null; nothing evaluated yet
AuthIdle ==
    /\ authInstance = 0
    /\ built = 0
    /\ loaded = "loading"
    /\ authCalls = [c \in AuthCallers |-> IdleAuthCall]

\* getAuth is callable as soon as the binding exists: the module's own call
\* only, nothing waiting for the module to finish evaluating
AuthInvokeBeforeLoaded(c) ==
    /\ authCalls[c].pc = "idle"
    /\ c = 0 => loaded = "loading"
    /\ IF authInstance # 0
       THEN authCalls' = [authCalls EXCEPT ![c] = [pc |-> "resolved", got |-> authInstance]]
       ELSE authCalls' = [authCalls EXCEPT ![c].pc = "connecting"]
    /\ UNCHANGED <<newsVars, digestVars, formatVars, watchVars, buttonVars,
                   authInstance, built, loaded>>

\* getAuth up to its first await: `if (authInstance) return authInstance;`
\* then `await connectToDatabase()`. An importer runs only after the module's
\* top-level await has settled, so calls other than the module's own start
\* once the module is loaded
AuthInvoke(c) ==
    /\ authCalls[c].pc = "idle"
    /\ IF c = 0 THEN loaded = "loading" ELSE loaded = "loaded"
    /\ IF authInstance # 0
       THEN authCalls' = [authCalls EXCEPT ![c] = [pc |-> "resolved", got |-> authInstance]]
       ELSE authCalls' = [authCalls EXCEPT ![c].pc = "connecting"]
    /\ UNCHANGED <<newsVars, digestVars, formatVars, watchVars, buttonVars,
                   authInstance, built, loaded>>

\* getAuth after the await: the connection failed or has no db (raise), or
\* betterAuth(...) builds an instance that is assigned and returned
AuthConnected(c) ==
    /\ authCalls[c].pc = "connecting"
    /\ \E db \in BOOLEAN :
          IF ~db
          THEN /\ authCalls' = [authCalls EXCEPT ![c].pc = "rejected"]
               /\ UNCHANGED <<authInstance, built>>
          ELSE /\ built' = built + 1
               /\ authInstance' = built + 1
               /\ authCalls' = [authCalls EXCEPT ![c] = [pc |-> "resolved", got |-> built + 1]]
    /\ UNCHANGED <<newsVars, digestVars, formatVars, watchVars, buttonVars, loaded>>

\* the caller's await of the promise settles; for the module's own call this
\* ends the evaluation of the module
AuthSettled(c) ==
    /\ authCalls[c].pc \in {"resolved", "rejected"}
    /\ authCalls' = [authCalls EXCEPT ![c].pc =
                        IF authCalls[c].pc = "resolved" THEN "received" ELSE "raised"]
    /\ loaded' = IF c # 0 THEN loaded
                 ELSE IF authCalls[c].pc = "resolved" THEN "loaded" ELSE "failed"
    /\ UNCHANGED <<newsVars, digestVars, formatVars, watchVars, buttonVars,
                   authInstance, built>>

NextAuth ==
    \/ \E c \in AuthCallers : AuthInvoke(c)
    \/ \E c \in AuthCallers : AuthConnected(c)
    \/ \E c \in AuthCallers : AuthSettled(c)

----------------------------------------------------------------------------
(* components/WatchlistButton.tsx and hooks/useDebounce.ts: one mounted    *)
(* button, its debounced server action and the server's watchlist          *)

\* useState(!!isInWatchlist), with isInWatchlist the server's membership;
\* nothing clicked, no timeout set, no server action issued
ButtonIdle ==
    /\ btnAdded = FALSE
    /\ server = FALSE
    /\ timers = <<>>
    /\ timeoutRef = FALSE
    /\ mutations = <<>>
    /\ clicks = 0
    /\ bursts = 0
    /\ issued = 0
    /\ failed = FALSE

\* a debounce that sets a new timeout and leaves the earlier one running
ClearTimeoutNever(set, ref) == set

\* the timeouts left after clearTimeout(timeoutRef.current): the timeout the
\* ref names is the one set last
ClearTimeout(set, ref) ==
    IF ref /\ set # <<>> THEN SubSeq(set, 1, Len(set) - 1) ELSE set

\* handleClick: setAdded(!added); debouncedToggle(), which clears the timeout
\* the ref names and sets a new one for toggleWatchlist. The callback is the
\* toggleWatchlist of the render the click happened in: it reads the `added`
\* from before this click
Click ==
    /\ clicks < MaxClicks
    /\ clicks' = clicks + 1
    /\ bursts' = IF timers = <<>> THEN bursts + 1 ELSE bursts
    /\ timers' = Append(ClearTimeout(timers, timeoutRef), btnAdded)
    /\ timeoutRef' = TRUE
    /\ btnAdded' = ~btnAdded
    /\ UNCHANGED <<newsVars, digestVars, formatVars, watchVars, authVars,
                   mutations, server, issued, failed>>

\* 300 ms passed since a timeout was set: toggleWatchlist runs and issues
\* removeFromWatchlist if its `added` was true, addToWatchlist otherwise
Fire ==
    /\ \E k \in 1..Len(timers) :
          /\ mutations' = Append(mutations, IF timers[k] THEN "remove" ELSE "add")
          /\ timers' = SubSeq(timers, 1, k - 1) \o SubSeq(timers, k + 1, Len(timers))
          /\ timeoutRef' = (timeoutRef /\ k # Len(timers))
    /\ issued' = issued + 1
    /\ UNCHANGED <<newsVars, digestVars, formatVars, watchVars, authVars,
                   btnAdded, server, clicks, bursts, failed>>

\* the server answers the oldest server action: addToWatchlist leaves the
\* symbol in the watchlist (saved, or "Stock already in watchlist"),
\* removeFromWatchlist leaves it out (deleteOne), and either may raise
\* without changing the watchlist. `added` is not touched by the answer
Answer ==
    /\ mutations # <<>>
    /\ \E raises \in BOOLEAN :
          /\ failed' = raises
          /\ server' = IF raises THEN server ELSE (Head(mutations) = "add")
    /\ mutations' = Tail(mutations)
    /\ UNCHANGED <<newsVars, digestVars, formatVars, watchVars, authVars,
                   btnAdded, timers, timeoutRef, clicks, bursts, issued>>

NextButton ==
    \/ Click
    \/ Fire
    \/ Answer

\* no server action and no timeout is outstanding
Quiet == timers = <<>> /\ mutations = <<>>

\* C29: every burst of clicks gets exactly one server action (issued, or
\* still waiting for its 300 ms), and when nothing is outstanding and the
\* last server action did not raise, `added` is the server's membership
C29_OneMutationPerBurst ==
    /\ issued + Len(timers) = bursts
    /\ (Quiet /\ ~failed) => btnAdded = server

\* a burst of three clicks got one server action, which succeeded
C29_Witness ==
    /\ clicks = 3
    /\ bursts = 1
    /\ issued = 1
    /\ Quiet
    /\ ~failed
    /\ btnAdded = server
    /\ btnAdded

----------------------------------------------------------------------------
(* Termination: a getNews call or a run of the daily digest, every request *)
(* of which is answered sooner or later                                    *)

\* either a getNews call is made or the digest runs, one at a time
NextLive ==
    \/ (dpc = "resolve" /\ NextNews)
    \/ (pc = "start" /\ NextDigest)

\* the passes of the outer loop that the round-robin of this call begins
RoundsBegun == RoundRobin(cleanSymbols, perSymbolArticles, <<>>, 0, 1).rounds

\* the round-robin of a call stops within maxArticles rounds
RoundsBounded == pc = "merge" => RoundsBegun <= maxArticles

\* C30: when every external call is answered or fails sooner or later, a run
\* of the daily digest that has begun finishes, and the round-robin of a
\* getNews call stops within 6 rounds, empty lists or not
C30_Terminates ==
    /\ []RoundsBounded
    /\ (dpc # "resolve") ~> (dpc = "finished")

\* a run with two recipients finished after both deliveries had settled
C30_Witness ==
    /\ dpc = "finished"
    /\ Len(users) = 2
    /\ \A i \in DOMAIN delivery : delivery[i] \in {"sent", "failed"}
    /\ DOMAIN delivery = 1..2

\* a round-robin over lists that are all empty is about to run its 6 rounds
AllListsEmpty ==
    /\ pc = "merge"
    /\ Len(cleanSymbols) = 2
    /\ \A s \in DOMAIN perSymbolArticles : perSymbolArticles[s] = <<>>
    /\ RoundsBegun = maxArticles

----------------------------------------------------------------------------
(* Specifications *)

\* one getNews call against any feed
Init ==
    /\ NewsIdle
    /\ tokenConfigured \in BOOLEAN
    /\ DigestIdle
    /\ FormatIdle
    /\ WatchIdle
    /\ AuthIdle
    /\ ButtonIdle

Spec == Init /\ [][NextNews]_vars

\* one run of the daily digest
InitDigest ==
    /\ NewsIdle
    /\ tokenConfigured = TRUE
    /\ DigestIdle
    /\ FormatIdle
    /\ WatchIdle
    /\ AuthIdle
    /\ ButtonIdle

SpecDigest == InitDigest /\ [][NextDigest]_vars

\* one formatArticle call on any validated article
InitFormat ==
    /\ NewsIdle
    /\ tokenConfigured = TRUE
    /\ DigestIdle
    /\ FormatInput
    /\ WatchIdle
    /\ AuthIdle
    /\ ButtonIdle

SpecFormat == InitFormat /\ [][NextFormat]_vars

\* addToWatchlist calls of one user, on a watchlist that may hold a symbol
InitWatch ==
    /\ NewsIdle
    /\ tokenConfigured = TRUE
    /\ DigestIdle
    /\ FormatIdle
    /\ calls = [c \in Calls |-> IdleCall]
    /\ watchlist \in {<<>>, <<WatchlistDoc(<<"A">>)>>}
    /\ AuthIdle
    /\ ButtonIdle

SpecWatch == InitWatch /\ [][NextWatch]_vars

\* the evaluation of lib/better-auth/auth.ts and the getAuth calls after it
InitAuth ==
    /\ NewsIdle
    /\ tokenConfigured = TRUE
    /\ DigestIdle
    /\ FormatIdle
    /\ WatchIdle
    /\ AuthIdle
    /\ ButtonIdle

SpecAuth == InitAuth /\ [][NextAuth]_vars

\* one WatchlistButton mounted with the server's membership
InitButton ==
    /\ NewsIdle
    /\ tokenConfigured = TRUE
    /\ DigestIdle
    /\ FormatIdle
    /\ WatchIdle
    /\ AuthIdle
    /\ timers = <<>>
    /\ timeoutRef = FALSE
    /\ mutations = <<>>
    /\ clicks = 0
    /\ bursts = 0
    /\ issued = 0
    /\ failed = FALSE
    /\ server \in BOOLEAN
    /\ btnAdded = server

SpecButton == InitButton /\ [][NextButton]_vars

\* a getNews call or a run of the daily digest; every step of the run that
\* can be taken is taken sooner or later: a request it waits for is answered
\* or fails, and the code between two awaits runs
InitLive ==
    /\ NewsIdle
    /\ tokenConfigured = TRUE
    /\ DigestIdle
    /\ FormatIdle
    /\ WatchIdle
    /\ AuthIdle
    /\ ButtonIdle

SpecLive == InitLive /\ [][NextLive]_vars /\ WF_vars(pc = "start" /\ NextDigest)

====
